---- MODULE Spec2Model ----
(***************************************************************************)
(* vlx2mqtt: bridge between a KLF200 hub (pyvlx) and an MQTT broker (paho). *)
(*                                                                         *)
(* Two threads share the globals RUNNING, MQTT_CONN and nodes:             *)
(*   - the main thread runs the asyncio coroutine main(); the coroutine    *)
(*     vlx_cb and the signal handler cleanup run on the same thread;       *)
(*   - the broker client's network thread (MQTTC.loop_start) runs the      *)
(*     callbacks mqtt_on_connect, mqtt_on_message, mqtt_on_disconnect.     *)
(* Strings that the program takes apart (topics, node names, payloads)     *)
(* are sequences of one-character strings.                                 *)
(***************************************************************************)
EXTENDS Integers, Sequences, FiniteSets, TLC

\* ---------------------------------------------------------------- bounds
MaxMsgs == 2        \* inbound broker messages delivered in a run
MaxReports == 1     \* device-update notifications delivered by the hub

\* ------------------------------------------------------ program constants
SENTINEL == -1

ROOTTOPIC == <<"h">>

SetSuffix == <<"/", "s", "e", "t">>

\* pyvlx.nodes after load_nodes(): the rosters the hub may hold. opening is
\* isinstance(node, OpeningDevice): a hub with one window, and a hub with a
\* node of another type next to a window whose name ends with that node's.
Rosters ==
    { << [name |-> <<"w">>, opening |-> TRUE] >>,
      << [name |-> <<"w">>, opening |-> FALSE],
         [name |-> <<"n", "w">>, opening |-> TRUE] >> }

Names == UNION { { r[i].name : i \in DOMAIN r } : r \in Rosters }

\* The vertical tab (byte 0x0b), which has no escape in a string.
VT == ""

\* msg.payload of inbound command messages: decimal strings, one of them with
\* whitespace, and one that int() rejects.
Payloads ==
    { <<"0">>, <<VT, "0">>, <<"1", "0", "0">>, <<"-", "1">>, <<"1", "0", "1">>, <<"a">> }

\* node.position.position_percent of a device-update notification.
Positions == { 37 }

\* return_code of a CONNACK handed to mqtt_on_connect.
RCodes == 0..6

\* ---------------------------------------------------------------- state
VARIABLES
    pc,           \* position of main()
    RUNNING,      \* global RUNNING
    MQTT_CONN,    \* global MQTT_CONN
    nodes,        \* global nodes: dict in insertion order, <<[name, value]>>
    pyvlx_nodes,  \* pyvlx.nodes: the roster, <<>> before load_nodes()
    registered,   \* names with vlx_cb registered
    snap,         \* list(nodes.items()) of the tick in progress
    idx,          \* position of the tick's for loop in snap
    cb,           \* vlx_cb in progress: [pc, name, pos]
    sess,         \* broker session: none, connecting, up, refused, lost (gone, the
                  \* disconnect callback yet to run), down, closing, closed
    loop_running, \* network thread alive (loop_start .. loop_stop)
    netpc,        \* position of the network thread inside a callback
    om,           \* mqtt_on_message in progress: [i, topic, payload], i the
                  \* position of its for loop in pyvlx.nodes (0: not in progress)
    subs,         \* topics subscribed in the current broker session
    status,       \* retained payload of STATUSTOPIC: the last one published
    statusSeen,   \* payloads published on STATUSTOPIC so far
    devPubs,      \* device-state publishes, in order: [topic, payload, retain]
    unissued,     \* per name: commands staged minus set_position calls issued
    fresh,        \* names with a command staged since the latest snapshot, not reset since
    due,          \* per name: the later of two commands staged in a row since the
                  \* latest snapshot with no reset between them, or SENTINEL
    tickDue,      \* due as captured by the snapshot of the latest tick
    tickFresh,    \* fresh as captured by the snapshot of the latest tick
    quiet,        \* ticks begun since the latest command was staged: "no" none,
                  \* "one" the first, "issued" the first with a set_position
                  \* call issued in it, "two_after_issue" the second when the
                  \* first issued a call, "two" any other later one
    dropped,      \* names whose latest hub report vlx_cb dropped while the broker
                  \* connection, established before, was down
    nMsgs, nReports  \* messages and hub reports delivered so far

vars == << pc, RUNNING, MQTT_CONN, nodes, pyvlx_nodes, registered, snap, idx, cb,
           sess, loop_running, netpc, om, subs, status, statusSeen, devPubs, unissued,
           fresh, due, tickDue, tickFresh, quiet, dropped, nMsgs, nReports >>

\* Groups of variables, for the frame conditions.
gFlags == << RUNNING, MQTT_CONN >>
gHub == << pyvlx_nodes, registered >>
gTick == << snap, idx, tickDue, tickFresh, quiet >>
gCmd == << nodes, unissued, fresh, due, nMsgs >>
gCb == << cb, devPubs, dropped, nReports >>
gNet == << sess, loop_running, netpc, om, subs >>
gStat == << status, statusSeen >>

\* ------------------------------------------------------------ pure helpers

\* pat in text (Python's substring test on str).
Contains(text, pat) ==
    \E i \in 0..(Len(text) - Len(pat)) : SubSeq(text, i + 1, i + Len(pat)) = pat

\* ROOTTOPIC + '/' + node.name
StateTopic(name) == ROOTTOPIC \o <<"/">> \o name

\* ROOTTOPIC + '/' + node.name + '/set'
CommandTopic(name) == StateTopic(name) \o SetSuffix

Digits == <<"0", "1", "2", "3", "4", "5", "6", "7", "8", "9">>

IsDigit(c) == \E k \in DOMAIN Digits : Digits[k] = c

DigitVal(c) == (CHOOSE k \in DOMAIN Digits : Digits[k] = c) - 1

RECURSIVE DecVal(_)
DecVal(s) ==
    IF s = <<>> THEN 0
    ELSE 10 * DecVal(SubSeq(s, 1, Len(s) - 1)) + DigitVal(s[Len(s)])

\* The characters int() strips from both ends of a bytes literal.
Whitespace == {" ", "\t", "\n", VT, "\f", "\r"}

\* sys.get_int_max_str_digits(): int() raises ValueError for a literal of
\* more digits, leading zeros counted.
IntMaxStrDigits == 4300

RECURSIVE StripLeft(_)
StripLeft(s) ==
    IF s # <<>> /\ Head(s) \in Whitespace THEN StripLeft(Tail(s)) ELSE s

RECURSIVE StripRight(_)
StripRight(s) ==
    IF s # <<>> /\ s[Len(s)] \in Whitespace
    THEN StripRight(SubSeq(s, 1, Len(s) - 1)) ELSE s

Strip(s) == StripRight(StripLeft(s))

\* The literal without its sign.
Unsigned(s) == IF s # <<>> /\ s[1] \in {"-", "+"} THEN Tail(s) ELSE s

\* Decimal digits, with single underscores allowed between two digits.
DigitsOk(b) ==
    /\ b # <<>>
    /\ IsDigit(b[1])
    /\ IsDigit(b[Len(b)])
    /\ \A k \in DOMAIN b : IsDigit(b[k]) \/ b[k] = "_"
    /\ \A k \in 1..(Len(b) - 1) : ~(b[k] = "_" /\ b[k + 1] = "_")
    /\ Len(SelectSeq(b, IsDigit)) <= IntMaxStrDigits

\* int(msg.payload) parses; otherwise it raises ValueError.
IntParses(s) == DigitsOk(Unsigned(Strip(s)))

\* int(msg.payload)
ParseInt(s) ==
    LET t == Strip(s)
        v == DecVal(SelectSeq(Unsigned(t), IsDigit))
    IN IF t[1] = "-" THEN 0 - v ELSE v

\* The values held for name in the dict d: {} when there is no entry.
Entry(d, name) == { d[i].value : i \in { j \in DOMAIN d : d[j].name = name } }

HasKey(d, name) == \E i \in DOMAIN d : d[i].name = name

\* d[name] = v on an insertion-ordered dict.
SetItem(d, name, v) ==
    IF HasKey(d, name)
    THEN [ i \in DOMAIN d |-> IF d[i].name = name THEN [name |-> name, value |-> v]
                              ELSE d[i] ]
    ELSE Append(d, [name |-> name, value |-> v])

\* The test of mqtt_on_message's loop: node.name + '/set' in msg.topic.
TopicMatches(name, topic) == Contains(topic, name \o SetSuffix)

\* The names mqtt_on_message stages for a message on topic.
Matched(roster, topic) ==
    { roster[i].name : i \in { j \in DOMAIN roster : TopicMatches(roster[j].name, topic) } }

\* mqtt_on_message's loop over pyvlx.nodes from position i on.
RECURSIVE StageFrom(_, _, _, _, _)
StageFrom(d, roster, i, topic, v) ==
    IF i > Len(roster) THEN d
    ELSE IF TopicMatches(roster[i].name, topic)
         THEN StageFrom(SetItem(d, roster[i].name, v), roster, i + 1, topic, v)
         ELSE StageFrom(d, roster, i + 1, topic, v)

\* Faulty variant of MarkExecuted: the entry is left as it is.
MarkExecutedSkipped(d, name) == d

\* Faulty variant of MarkExecuted: the entry is reset to a value of the valid
\* range.
MarkExecutedZero(d, name) == SetItem(d, name, 0)

\* nodes[name] = -1  # mark execuded
MarkExecuted(d, name) == SetItem(d, name, SENTINEL)

\* Faulty variant of ConnectClass: "not authorised" (5) is taken for a
\* refusal that heals by itself.
ConnectClassLenient(return_code) ==
    IF return_code = 0 THEN "connected"
    ELSE IF return_code \in {3, 5} THEN "retry"
    ELSE "fatal"

\* The if/elif chain of mqtt_on_connect.
ConnectClass(return_code) ==
    IF return_code = 0 THEN "connected"
    ELSE IF return_code = 3 THEN "retry"
    ELSE "fatal"

\* No mqtt_on_message is in progress.
NoMessage == [i |-> 0, topic |-> <<>>, payload |-> <<>>]

OpeningNames(roster) ==
    { roster[i].name : i \in { j \in DOMAIN roster : roster[j].opening } }

NoneDue == [ n \in Names |-> SENTINEL ]

\* The values of the entries of log for name, in order.
RECURSIVE ValuesFor(_, _)
ValuesFor(log, name) ==
    IF log = <<>> THEN <<>>
    ELSE IF Head(log).name = name /\ Head(log).value >= 0
    THEN <<Head(log).value>> \o ValuesFor(Tail(log), name)
    ELSE ValuesFor(Tail(log), name)

\* The snapshot entries whose set_position call the tick has made so far.
Handled ==
    SubSeq(snap, 1, IF pc \in {"write_wait", "crashed"} THEN idx ELSE idx - 1)

\* The values issued for name by set_position since the latest snapshot.
IssuedInTick(name) == ValuesFor(Handled, name)

\* ------------------------------------------------------------------ Init
Init ==
    /\ pc = "connect"
    /\ RUNNING = TRUE
    /\ MQTT_CONN = FALSE
    /\ nodes = <<>>
    /\ pyvlx_nodes = <<>>
    /\ registered = {}
    /\ snap = <<>>
    /\ idx = 0
    /\ cb = [pc |-> "idle", name |-> <<>>, pos |-> 0]
    /\ sess = "none"
    /\ loop_running = FALSE
    /\ netpc = "idle"
    /\ om = NoMessage
    /\ subs = {}
    /\ status = ""
    /\ statusSeen = {}
    /\ devPubs = <<>>
    /\ unissued = [ n \in Names |-> 0 ]
    /\ fresh = {}
    /\ due = NoneDue
    /\ tickDue = NoneDue
    /\ tickFresh = {}
    /\ quiet = "no"
    /\ dropped = {}
    /\ nMsgs = 0
    /\ nReports = 0


\* --------------------------------------------------------- main(): startup
Alive == pc \notin {"crashed", "stopped"}

\* main() runs only while no vlx_cb is in progress on its thread.
MainAt(p) == pc = p /\ cb.pc = "idle"

\* result = MQTTC.connect(...) with result == 0 (lines 191 and 195).
main_connect_ok ==
    /\ MainAt("connect")
    /\ sess' = "connecting"
    /\ pc' = "pub_started"
    /\ UNCHANGED << gFlags, gHub, gTick, gCmd, gCb, gStat, loop_running, netpc, om, subs >>

\* result = MQTTC.connect(...) with result != 0: the while loop is entered.
main_connect_fail ==
    /\ MainAt("connect")
    /\ pc' = "retry_sleep"
    /\ UNCHANGED << gFlags, gHub, gTick, gCmd, gCb, gStat, gNet >>

\* MQTTC.publish(STATUSTOPIC, payload, retain=True)
PublishStatus(payload) ==
    /\ status' = payload
    /\ statusSeen' = statusSeen \cup {payload}

\* A step of main() that only moves on and, perhaps, publishes a status.
MainStep(from, to, payload) ==
    /\ MainAt(from)
    /\ pc' = to
    /\ IF payload = "" THEN UNCHANGED gStat ELSE PublishStatus(payload)
    /\ UNCHANGED << gFlags, gHub, gTick, gCmd, gCb, gNet >>

\* await asyncio.sleep(10) inside the connect loop.
main_retry_sleep == MainStep("retry_sleep", "connect", "")

\* MQTTC.publish(STATUSTOPIC, "STARTED", retain=True)
main_pub_started == MainStep("pub_started", "load_nodes", "STARTED")

\* pyvlx = PyVLX(...); await pyvlx.load_nodes()
main_load_nodes ==
    /\ MainAt("load_nodes")
    /\ \E r \in Rosters : pyvlx_nodes' = r
    /\ pc' = "loop_start"
    /\ UNCHANGED << gFlags, registered, gTick, gCmd, gCb, gNet, gStat >>

\* MQTTC.on_connect = ...; MQTTC.loop_start()
main_loop_start ==
    /\ MainAt("loop_start")
    /\ loop_running' = TRUE
    /\ pc' = "stabilize"
    /\ UNCHANGED << gFlags, gHub, gTick, gCmd, gCb, gStat,
                    sess, netpc, om, subs >>

\* await asyncio.sleep(2)
main_stabilize == MainStep("stabilize", "pub_available", "")

\* MQTTC.publish(STATUSTOPIC, "KLF200_available", retain=True)
main_pub_available == MainStep("pub_available", "register", "KLF200_available")

\* for node in pyvlx.nodes: if isinstance(node, OpeningDevice): register vlx_cb
main_register ==
    /\ MainAt("register")
    /\ registered' = OpeningNames(pyvlx_nodes)
    /\ pc' = "loop_top"
    /\ UNCHANGED << gFlags, pyvlx_nodes, gTick, gCmd, gCb, gNet, gStat >>

\* ------------------------------------------------------- main(): the tick

\* while RUNNING: (the loop variables of the tick before are dead here)
main_loop_test ==
    /\ MainAt("loop_top")
    /\ pc' = IF RUNNING THEN "tick_sleep" ELSE "pub_disconnecting"
    /\ snap' = <<>>
    /\ idx' = 0
    /\ tickDue' = NoneDue
    /\ tickFresh' = {}
    /\ quiet' = IF ~RUNNING THEN "no"
                ELSE IF quiet = "no" THEN "one"
                ELSE IF quiet = "one" THEN "two"
                ELSE IF quiet = "issued" THEN "two_after_issue"
                ELSE "two"
    /\ UNCHANGED << gFlags, gHub, gCmd, gCb, gNet, gStat >>

\* await asyncio.sleep(1) returns; list(nodes.items()) is taken.
main_snapshot ==
    /\ MainAt("tick_sleep")
    /\ snap' = nodes
    /\ idx' = 1
    /\ tickDue' = due
    /\ tickFresh' = fresh
    /\ due' = NoneDue
    /\ fresh' = {}
    /\ pc' = "drain"
    /\ UNCHANGED << gFlags, gHub, gCb, gNet, gStat, nodes, unissued, nMsgs, quiet >>

\* One turn of: for name, value in <snapshot>: if value >= 0: nodes[name] = -1
main_drain ==
    /\ MainAt("drain")
    /\ IF idx > Len(snap)
       THEN /\ pc' = "loop_top"
            /\ UNCHANGED << nodes, fresh, idx >>
       ELSE IF snap[idx].value >= 0
       THEN /\ nodes' = MarkExecuted(nodes, snap[idx].name)
            /\ fresh' = fresh \ {snap[idx].name}
            /\ pc' = "write_call"
            /\ UNCHANGED idx
       ELSE /\ idx' = idx + 1
            /\ UNCHANGED << nodes, fresh, pc >>
    /\ UNCHANGED << gFlags, gHub, gCb, gNet, gStat, snap, tickDue, tickFresh,
                    quiet, unissued, due, nMsgs >>

\* pyvlx.nodes[name].set_position(Position(position_percent=value)) is called.
main_write_call ==
    /\ MainAt("write_call")
    /\ unissued' = [unissued EXCEPT ![snap[idx].name] = @ - 1]
    /\ quiet' = IF quiet = "one" THEN "issued" ELSE quiet
    /\ pc' = "write_wait"
    /\ UNCHANGED << gFlags, gHub, snap, idx, tickDue, tickFresh, gCb, gNet, gStat,
                    nodes, fresh, due, nMsgs >>

\* Faulty variant of main_write_done: the for loop is left after the first
\* write.
main_write_done_break ==
    /\ MainAt("write_wait")
    /\ pc' = "loop_top"
    /\ UNCHANGED << gFlags, gHub, gCmd, gCb, gNet, gStat, gTick >>

\* await set_position(...) returns: the hub acknowledged.
main_write_done ==
    /\ MainAt("write_wait")
    /\ idx' = idx + 1
    /\ pc' = "drain"
    /\ UNCHANGED << gFlags, gHub, gCmd, gCb, gNet, gStat, snap, tickDue, tickFresh,
                    quiet >>

\* await set_position(...) raises: nothing in main() or under __main__ catches
\* it (only KeyboardInterrupt is), so run_until_complete re-raises and the
\* process ends without the shutdown sequence.
main_write_fail ==
    /\ MainAt("write_wait")
    /\ pc' = "crashed"
    /\ quiet' = "no"
    /\ UNCHANGED << gFlags, gHub, snap, idx, tickDue, tickFresh, gCmd, gCb, gNet,
                    gStat >>

\* ----------------------------------------------------- main(): shutdown

\* MQTTC.publish(STATUSTOPIC, "DISCONNECTING KLF", retain=True)
main_pub_disconnecting == MainStep("pub_disconnecting", "klf_disconnect", "DISCONNECTING KLF")

\* await pyvlx.disconnect()
main_klf_disconnect == MainStep("klf_disconnect", "pub_disconnected_klf", "")

\* Faulty variant of main_pub_disconnected_klf: the offline status is published
\* in the place of the hub's.
main_pub_disconnected_early == MainStep("pub_disconnected_klf", "pub_disconnected", "DISCONNECTED")

\* MQTTC.publish(STATUSTOPIC, "DISCONNECTED KLF", retain=True)
main_pub_disconnected_klf == MainStep("pub_disconnected_klf", "pub_disconnected", "DISCONNECTED KLF")

\* MQTTC.publish(STATUSTOPIC, "DISCONNECTED", retain=True)
main_pub_disconnected == MainStep("pub_disconnected", "mqtt_disconnect", "DISCONNECTED")

\* MQTTC.disconnect()
main_mqtt_disconnect ==
    /\ MainAt("mqtt_disconnect")
    /\ sess' = IF sess \in {"connecting", "up", "refused", "lost"} THEN "closing"
               ELSE "closed"
    /\ pc' = "loop_stop"
    /\ UNCHANGED << gFlags, gHub, gTick, gCmd, gCb, gStat,
                    loop_running, netpc, om, subs >>

\* MQTTC.loop_stop(): joins the network thread, which ends after the callback
\* it is running, if any, or has ended already with an exception.
main_loop_stop ==
    /\ MainAt("loop_stop")
    /\ netpc \in {"idle", "raised"}
    /\ loop_running' = FALSE
    /\ pc' = "stopped"
    /\ UNCHANGED << gFlags, gHub, gTick, gCmd, gCb, gStat,
                    sess, netpc, om, subs >>

\* ------------------------------------------------- signal handler cleanup

\* Faulty variant of cleanup: a tick in progress is cancelled and main() goes
\* on with the shutdown sequence.
cleanup_cancelling ==
    /\ Alive
    /\ RUNNING
    /\ RUNNING' = FALSE
    /\ pc' = IF pc \in {"tick_sleep", "drain", "write_call", "write_wait"}
             THEN "pub_disconnecting" ELSE pc
    /\ UNCHANGED << MQTT_CONN, gHub, gTick, gCmd, gCb, gNet, gStat >>

\* cleanup(signum, frame), installed for SIGTERM and SIGINT: RUNNING = False.
\* It runs on the main thread between any two of its instructions.
cleanup ==
    /\ Alive
    /\ RUNNING
    /\ RUNNING' = FALSE
    /\ UNCHANGED << pc, MQTT_CONN, gHub, gTick, gCmd, gCb, gNet, gStat >>

\* ----------------------------------------------------------------- vlx_cb

\* The awaits of main() during which the event loop runs other coroutines.
AwaitPcs == {"tick_sleep", "write_wait", "klf_disconnect"}

\* vlx_cb(node) up to its test of MQTT_CONN: return when it is false.
vlx_cb(name, pos) ==
    /\ pc \in AwaitPcs
    /\ cb.pc = "idle"
    /\ name \in registered
    /\ nReports < MaxReports
    /\ nReports' = nReports + 1
    /\ IF ~MQTT_CONN
       THEN /\ dropped' = IF "CONNECTED" \in statusSeen /\ sess \in {"lost", "down", "refused", "connecting"}
                           THEN dropped \cup {name} ELSE dropped
            /\ UNCHANGED cb
       ELSE /\ cb' = [pc |-> "publish", name |-> name, pos |-> pos]
            /\ UNCHANGED dropped
    /\ UNCHANGED << pc, gFlags, gHub, gTick, gCmd, gNet, gStat, devPubs >>

\* MQTTC.publish(ROOTTOPIC + '/' + node.name, position_percent, retain=False)
vlx_cb_publish ==
    /\ Alive
    /\ cb.pc = "publish"
    /\ devPubs' = Append(devPubs, [topic |-> StateTopic(cb.name), payload |-> cb.pos,
                                   retain |-> FALSE])
    /\ dropped' = dropped \ {cb.name}
    /\ cb' = [pc |-> "idle", name |-> <<>>, pos |-> 0]
    /\ UNCHANGED << pc, gFlags, gHub, gTick, gCmd, gNet, gStat, nReports >>

\* ------------------------------------------------------- network thread

\* The network thread is between two callbacks.
NetIdle == Alive /\ loop_running /\ netpc = "idle"

\* The network thread is inside a callback, at position p.
NetAt(p) == Alive /\ loop_running /\ netpc = p

\* mqtt_on_connect(client, userdata, flags, return_code) up to its first
\* effect: the CONNACK of the pending CONNECT is handed to the callback.
mqtt_on_connect(return_code) ==
    /\ NetIdle
    /\ sess = "connecting"
    /\ IF ConnectClass(return_code) = "connected"
       THEN /\ sess' = "up"
            /\ netpc' = "oc_publish"
            /\ UNCHANGED RUNNING
       ELSE IF ConnectClass(return_code) = "retry"
       THEN /\ sess' = "refused"
            /\ netpc' = "oc_sleep"
            /\ UNCHANGED RUNNING
       ELSE /\ sess' = "refused"
            /\ RUNNING' = FALSE
            /\ UNCHANGED netpc
    /\ UNCHANGED << pc, MQTT_CONN, gHub, gTick, gCmd, gCb, gStat,
                    loop_running, om, subs >>

\* MQTTC.publish(STATUSTOPIC, "CONNECTED", retain=True)
on_connect_publish ==
    /\ NetAt("oc_publish")
    /\ PublishStatus("CONNECTED")
    /\ netpc' = "oc_subscribe"
    /\ UNCHANGED << pc, gFlags, gHub, gTick, gCmd, gCb,
                    sess, loop_running, om, subs >>

\* for node in pyvlx.nodes: if isinstance(node, OpeningDevice): MQTTC.subscribe(...)
\* The call subscribes nothing when the connection is gone meanwhile.
on_connect_subscribe ==
    /\ NetAt("oc_subscribe")
    /\ subs' = IF sess = "up"
               THEN subs \cup { CommandTopic(n) : n \in OpeningNames(pyvlx_nodes) }
               ELSE subs
    /\ netpc' = "oc_set_conn"
    /\ UNCHANGED << pc, gFlags, gHub, gTick, gCmd, gCb, gStat,
                    sess, loop_running, om >>

\* MQTT_CONN = True
on_connect_set_conn ==
    /\ NetAt("oc_set_conn")
    /\ MQTT_CONN' = TRUE
    /\ netpc' = "idle"
    /\ UNCHANGED << pc, RUNNING, gHub, gTick, gCmd, gCb, gStat,
                    sess, loop_running, om, subs >>

\* time.sleep(10) of the server-unavailable branch, or time.sleep(5) of
\* mqtt_on_disconnect, returns: the callback is over.
net_sleep_done ==
    /\ Alive /\ loop_running
    /\ netpc \in {"oc_sleep", "od_sleep"}
    /\ netpc' = "idle"
    /\ UNCHANGED << pc, gFlags, gHub, gTick, gCmd, gCb, gStat,
                    sess, loop_running, om, subs >>

\* The connection to the broker is lost, or the broker closes it: the
\* session and its subscriptions are gone. The program learns of it only when
\* the network thread gets to call mqtt_on_disconnect.
connection_lost ==
    /\ Alive
    /\ sess \in {"connecting", "up", "refused"}
    /\ sess' = "lost"
    /\ subs' = {}
    /\ UNCHANGED << pc, gFlags, gHub, gTick, gCmd, gCb, gStat,
                    loop_running, netpc, om >>

\* mqtt_on_disconnect(mosq, obj, return_code): 0 after MQTTC.disconnect(),
\* not 0 after the connection was lost or the broker closed it.
mqtt_on_disconnect(return_code) ==
    /\ NetIdle
    /\ IF return_code = 0 THEN sess = "closing" ELSE sess = "lost"
    /\ MQTT_CONN' = FALSE
    /\ sess' = IF return_code = 0 THEN "closed" ELSE "down"
    /\ subs' = {}
    /\ netpc' = IF return_code = 0 THEN "idle" ELSE "od_sleep"
    /\ UNCHANGED << pc, RUNNING, gHub, gTick, gCmd, gCb, gStat,
                    loop_running, om >>

\* The broker client's network loop sends a new CONNECT after a lost
\* connection. No statement of the program takes part in it.
client_reconnect ==
    /\ NetIdle
    /\ sess = "down"
    /\ sess' = "connecting"
    /\ UNCHANGED << pc, gFlags, gHub, gTick, gCmd, gCb, gStat,
                    loop_running, netpc, om, subs >>

\* One turn of mqtt_on_message's for loop, at position i of pyvlx.nodes, and
\* the end of the callback after the last one. At a node whose name matches,
\* int(msg.payload) is evaluated before anything is assigned: when it raises
\* ValueError nothing catches it, the exception leaves the callback and the
\* network loop that called it, and the network thread ends.
OnMessageTurn(i, topic, payload) ==
    LET name == pyvlx_nodes[i].name
        v == ParseInt(payload)
    IN IF ~TopicMatches(name, topic)
       THEN /\ UNCHANGED << nodes, unissued, fresh, due, quiet >>
            /\ netpc' = IF i < Len(pyvlx_nodes) THEN "om_loop" ELSE "idle"
            /\ om' = IF i < Len(pyvlx_nodes)
                     THEN [i |-> i + 1, topic |-> topic, payload |-> payload]
                     ELSE NoMessage
       ELSE IF ~IntParses(payload)
       THEN /\ UNCHANGED << nodes, unissued, fresh, due, quiet >>
            /\ netpc' = "raised"
            /\ om' = NoMessage
       ELSE /\ nodes' = SetItem(nodes, name, v)
            /\ unissued' = [unissued EXCEPT ![name] = IF v >= 0 THEN @ + 1 ELSE @]
            /\ fresh' = IF v >= 0 THEN fresh \cup {name} ELSE fresh \ {name}
            /\ due' = [due EXCEPT ![name] = IF v >= 0 /\ name \in fresh THEN v
                                            ELSE SENTINEL]
            /\ quiet' = "no"
            /\ netpc' = IF i < Len(pyvlx_nodes) THEN "om_loop" ELSE "idle"
            /\ om' = IF i < Len(pyvlx_nodes)
                     THEN [i |-> i + 1, topic |-> topic, payload |-> payload]
                     ELSE NoMessage

\* mqtt_on_message(client, userdata, msg): the broker delivers a message of a
\* subscribed topic; the callback runs the first turn of its loop.
mqtt_on_message(topic, payload) ==
    /\ NetIdle
    /\ sess = "up"
    /\ topic \in subs
    /\ nMsgs < MaxMsgs
    /\ nMsgs' = nMsgs + 1
    /\ OnMessageTurn(1, topic, payload)
    /\ UNCHANGED << pc, gFlags, gHub, snap, idx, tickDue, tickFresh, gCb, gStat,
                    sess, loop_running, subs >>

\* mqtt_on_message goes on with the next node of pyvlx.nodes.
on_message_next ==
    /\ NetAt("om_loop")
    /\ OnMessageTurn(om.i, om.topic, om.payload)
    /\ UNCHANGED << pc, gFlags, gHub, snap, idx, tickDue, tickFresh, gCb, gStat,
                    sess, loop_running, subs, nMsgs >>

\* ------------------------------------------------------------------ Next
MainNext ==
    \/ main_connect_ok
    \/ main_connect_fail
    \/ main_retry_sleep
    \/ main_pub_started
    \/ main_load_nodes
    \/ main_loop_start
    \/ main_stabilize
    \/ main_pub_available
    \/ main_register
    \/ main_loop_test
    \/ main_snapshot
    \/ main_drain
    \/ main_write_call
    \/ main_write_done
    \/ main_pub_disconnecting
    \/ main_klf_disconnect
    \/ main_pub_disconnected_klf
    \/ main_pub_disconnected
    \/ main_mqtt_disconnect
    \/ main_loop_stop

NetCallbackNext ==
    \/ on_message_next
    \/ on_connect_publish
    \/ on_connect_subscribe
    \/ on_connect_set_conn
    \/ net_sleep_done

Next ==
    \/ MainNext
    \/ main_write_fail
    \/ cleanup
    \/ \E n \in Names, p \in Positions : vlx_cb(n, p)
    \/ vlx_cb_publish
    \/ \E rc \in RCodes : mqtt_on_connect(rc)
    \/ NetCallbackNext
    \/ connection_lost
    \/ \E rc \in {0, 1} : mqtt_on_disconnect(rc)
    \/ client_reconnect
    \/ \E n \in Names, pl \in Payloads : mqtt_on_message(CommandTopic(n), pl)

Spec == Init /\ [][Next]_vars

\* The threads keep running: every statement of main() that can run does,
\* a callback that was entered runs to its end, a coroutine that started
\* finishes, and the client's network loop calls mqtt_on_disconnect for a
\* connection that is gone and reconnects after a lost one. What the broker,
\* the hub and the operator do is not forced.
FairSpec ==
    /\ Spec
    /\ WF_vars(MainNext)
    /\ WF_vars(NetCallbackNext)
    /\ WF_vars(\E rc \in {0, 1} : mqtt_on_disconnect(rc))
    /\ WF_vars(vlx_cb_publish)
    /\ WF_vars(client_reconnect)


\* ================================================================ claims

\* The entry of the snapshot the tick is working on.
Cur == snap[idx]

\* C1: when two commands v1, v2 were staged in a row for a device with no
\* drain between them, the tick that follows issues exactly one set_position
\* for the device, with value v2. Checked when that tick is over.
C1_LastWriteWins ==
    pc \in {"loop_top", "crashed"} =>
        \A n \in Names : tickDue[n] >= 0 => IssuedInTick(n) = <<tickDue[n]>>

\* C2: the tick never resets an entry that holds a command staged after the
\* snapshot: when it resets the entry of a device, the command held there is
\* the one of the snapshot, which is the one it issues.
C2_NoLostOverwrite ==
    [][ (pc = "drain" /\ pc' = "write_call") =>
            \A x \in Entry(nodes, Cur.name) : x >= 0 => x = Cur.value ]_vars

\* C3: the entry of a device is reset to the sentinel before set_position is
\* called for it (it holds the sentinel unless a command was staged after the
\* reset), and no device has more set_position calls than commands staged.
C3_AtMostOnce ==
    /\ \A n \in Names : unissued[n] >= 0
    /\ pc \in {"write_call", "write_wait"} =>
           \/ Entry(nodes, Cur.name) = {SENTINEL}
           \/ Cur.name \in fresh

\* C3, witness: a write is in flight for a device whose entry holds the
\* sentinel, and every command staged for the device has been issued.
C3_Witness ==
    /\ pc = "write_wait"
    /\ Entry(nodes, Cur.name) = {SENTINEL}
    /\ unissued[Cur.name] = 0

\* A step of mqtt_on_message for the message (topic, payload): its first loop
\* turn or a later one.
OnMessageStep(topic, payload) ==
    \/ mqtt_on_message(topic, payload)
    \/ on_message_next /\ om.topic = topic /\ om.payload = payload

\* C4: a message on <root>/<d>/set with payload v leaves v in the entry of d
\* and leaves the entry of every other device as it was, at every step of
\* the handler.
C4_StagesOnlyTarget ==
    [][ \A n \in Names, pl \in Payloads :
            (IntParses(pl) /\ OnMessageStep(CommandTopic(n), pl)) =>
                /\ nodes' \in {nodes, SetItem(nodes, n, ParseInt(pl))}
                /\ netpc' = "idle" => Entry(nodes', n) = {ParseInt(pl)}
                /\ \A e \in Names \ {n} : Entry(nodes', e) = Entry(nodes, e) ]_vars

\* C5: a device update makes one non-retained publish of the position on
\* <root>/<d> when MQTT_CONN is true and none when it is false, and no
\* device-state publish is made in a state where MQTT_CONN is false.
C5_PublishOnlyWhenConnected ==
    [][ /\ \A n \in Names, p \in Positions :
               vlx_cb(n, p) =>
                   IF MQTT_CONN THEN cb' = [pc |-> "publish", name |-> n, pos |-> p]
                   ELSE cb' = cb /\ devPubs' = devPubs
        /\ vlx_cb_publish =>
               /\ MQTT_CONN
               /\ devPubs' = Append(devPubs, [topic |-> StateTopic(cb.name),
                                              payload |-> cb.pos, retain |-> FALSE]) ]_vars

\* C6: a position the hub reported while the broker connection was down is
\* published once the connection is back and the bridge is running.
C6_NoUpdateLost ==
    \A n \in Names :
        (n \in dropped /\ MQTT_CONN /\ RUNNING) ~> (n \notin dropped \/ ~RUNNING)

\* C7: return code 0 sets MQTT_CONN; code 3 leaves RUNNING as it is and
\* MQTT_CONN false; every other code leaves MQTT_CONN false and clears RUNNING.
C7_ConnectClassified ==
    [][ /\ \A rc \in RCodes :
               mqtt_on_connect(rc) =>
                   IF rc = 0 THEN netpc' = "oc_publish" /\ RUNNING' = RUNNING
                   ELSE IF rc = 3
                   THEN netpc' = "oc_sleep" /\ RUNNING' = RUNNING /\ ~MQTT_CONN'
                   ELSE netpc' = "idle" /\ ~RUNNING' /\ ~MQTT_CONN'
        /\ (netpc = "oc_sleep" /\ netpc' # netpc) =>
               RUNNING' = RUNNING /\ ~MQTT_CONN'
        /\ (netpc \in {"oc_publish", "oc_subscribe"} /\ netpc' # netpc) =>
               netpc' \in {"oc_subscribe", "oc_set_conn"} /\ RUNNING' = RUNNING
        /\ (netpc = "oc_set_conn" /\ netpc' # netpc) =>
               netpc' = "idle" /\ MQTT_CONN' /\ RUNNING' = RUNNING ]_vars

\* C7, witness: a server-unavailable refusal is being handled: the bridge is
\* still running and not connected.
C7_Witness ==
    /\ netpc = "oc_sleep"
    /\ sess = "refused"
    /\ RUNNING
    /\ ~MQTT_CONN

\* C8: once DISCONNECTED is published on the status topic, nothing else is.
C8_DisconnectedIsTerminal ==
    [][ status = "DISCONNECTED" => status' = "DISCONNECTED" ]_vars

\* C9: a failed set_position does not end the main loop.
C9_FailedWriteKeepsLoop == pc # "crashed"

\* C10: while the bridge is running, a lost or refused broker connection is
\* followed by a further connect attempt.
C10_TransientRetried ==
    (RUNNING /\ sess = "down") ~>
        (sess = "connecting" \/ pc \in {"connect", "retry_sleep"} \/ ~RUNNING)

\* C11: a command message whose payload int() rejects is ignored: nodes is
\* left as it was, nothing escapes mqtt_on_message, and the network thread is
\* ready for the next message.
C11_MalformedIgnored ==
    [][ \A n \in Names, pl \in Payloads :
            (~IntParses(pl) /\ OnMessageStep(CommandTopic(n), pl)) =>
                nodes' = nodes /\ netpc' # "raised" ]_vars

\* The lifecycle payloads of STATUSTOPIC, in the order of main().
Lifecycle ==
    << "STARTED", "KLF200_available", "DISCONNECTING KLF", "DISCONNECTED KLF",
       "DISCONNECTED" >>

\* How many lifecycle payloads main() has published when it is at p.
PublishedAt(p) ==
    IF p \in {"connect", "retry_sleep", "pub_started"} THEN 0
    ELSE IF p \in {"load_nodes", "loop_start", "stabilize", "pub_available"} THEN 1
    ELSE IF p \in {"register", "loop_top", "tick_sleep", "drain", "write_call",
                   "write_wait", "crashed", "pub_disconnecting"} THEN 2
    ELSE IF p = "klf_disconnect" \/ p = "pub_disconnected_klf" THEN 3
    ELSE IF p = "pub_disconnected" THEN 4
    ELSE 5

\* C12: the lifecycle payloads are published in the order STARTED,
\* KLF200_available, DISCONNECTING KLF, DISCONNECTED KLF, DISCONNECTED, none
\* of them again later: at every position of main() the ones published so far
\* are a prefix of that order and the last one published is the end of the
\* prefix (or CONNECTED, from the network thread). STARTED comes after the
\* first successful MQTTC.connect and before load_nodes, vlx_cb is registered
\* after KLF200_available, and pyvlx.disconnect() runs between DISCONNECTING
\* KLF and DISCONNECTED KLF.
C12_LifecycleOrder ==
    /\ statusSeen \ {"CONNECTED"} = { Lifecycle[k] : k \in 1..PublishedAt(pc) }
    /\ status \in {"CONNECTED"} \cup
           (IF PublishedAt(pc) = 0 THEN {""} ELSE {Lifecycle[PublishedAt(pc)]})
    /\ "STARTED" \in statusSeen => sess # "none"
    /\ "STARTED" \notin statusSeen => pyvlx_nodes = <<>> /\ ~loop_running
    /\ "KLF200_available" \notin statusSeen => registered = {}
    /\ pc = "klf_disconnect" =>
           "DISCONNECTING KLF" \in statusSeen /\ "DISCONNECTED KLF" \notin statusSeen

\* C12, witness: a run that went through startup, registered vlx_cb and shut
\* down: the five payloads were published, DISCONNECTED last.
C12_Witness ==
    /\ pc = "stopped"
    /\ registered # {}
    /\ status = "DISCONNECTED"
    /\ statusSeen \ {"CONNECTED"} = { Lifecycle[k] : k \in DOMAIN Lifecycle }

\* C13: set_position is never called with the sentinel, and a command of
\* exactly 0 or exactly 100 that the tick finds staged is issued by that tick
\* with that value. Checked when the tick is over.
C13_SentinelApart ==
    /\ pc \in {"write_call", "write_wait"} => Cur.value # SENTINEL
    /\ pc \in {"loop_top", "crashed"} =>
           \A i \in DOMAIN snap : snap[i].value \in {0, 100} => i <= Len(Handled)

\* C14: for a roster node that is not an opening device, its command topic is
\* not subscribed, vlx_cb is not registered, no state is published, and
\* set_position is never called.
C14_OnlyOpeningBridged ==
    \A i \in DOMAIN pyvlx_nodes :
        ~pyvlx_nodes[i].opening =>
            /\ CommandTopic(pyvlx_nodes[i].name) \notin subs
            /\ pyvlx_nodes[i].name \notin registered
            /\ \A k \in DOMAIN devPubs : devPubs[k].topic # StateTopic(pyvlx_nodes[i].name)
            /\ ~(pc = "write_wait" /\ Cur.name = pyvlx_nodes[i].name)

\* C15: within a tick set_position is issued at most once per device, and a
\* tick issues it only for devices with a command staged since the snapshot
\* of the tick before and not reset since: a tick that follows another with
\* no message staged between the start of the first and its own end issues
\* nothing.
C15_DrainIdempotent ==
    /\ \A n \in Names : Len(IssuedInTick(n)) <= 1
    /\ pc \in {"write_call", "write_wait"} => Cur.name \in tickFresh
    /\ quiet \in {"two", "two_after_issue"} => pc \notin {"write_call", "write_wait"}

\* C15, witness: two ticks in a row are over with no command staged since the
\* first began; the first issued a set_position call, the second went through
\* the table and issued none.
C15_Witness ==
    /\ pc = "loop_top"
    /\ quiet = "two_after_issue"
    /\ snap # <<>>
    /\ \A n \in Names : IssuedInTick(n) = <<>>

\* The command topic of every opening device is subscribed in the session.
Subscribed == \A d \in OpeningNames(pyvlx_nodes) : CommandTopic(d) \in subs

\* The session is gone and the network thread is still to call
\* mqtt_on_disconnect for it.
DisconnectPending ==
    /\ sess \in {"lost", "closing"}
    /\ loop_running
    /\ netpc # "raised"

\* C16: every successful connect publishes CONNECTED and subscribes the
\* command topic of every opening device before it sets MQTT_CONN, and
\* mqtt_on_disconnect clears MQTT_CONN for return code 0 and for the others;
\* hence, while the process runs, MQTT_CONN is true only with those topics
\* subscribed in the current session -- or, at the latest, until the
\* disconnect callback for a session that is gone has run.
C16_ConnectedMeansSubscribed ==
    /\ []((Alive /\ MQTT_CONN) => (sess = "up" /\ Subscribed) \/ DisconnectPending)
    /\ [][ /\ mqtt_on_connect(0) => netpc' = "oc_publish" /\ ~MQTT_CONN'
           /\ (netpc = "oc_publish" /\ netpc' # netpc) =>
                  status' = "CONNECTED" /\ ~MQTT_CONN'
           /\ (netpc = "oc_subscribe" /\ netpc' # netpc) =>
                  (sess = "up" => Subscribed') /\ ~MQTT_CONN'
           /\ (MQTT_CONN' /\ ~MQTT_CONN) => netpc = "oc_set_conn"
           /\ \A rc \in {0, 1} : mqtt_on_disconnect(rc) => ~MQTT_CONN' ]_vars

\* C17: one set_position at most is in flight, the one of the snapshot entry
\* the for loop is at; the entries before it that held a command have had
\* their write issued and completed; and when the tick is over, before the
\* next one takes its snapshot, every entry that held a command has.
C17_WritesSerialized ==
    /\ pc \in {"write_call", "write_wait"} =>
           /\ idx \in DOMAIN snap
           /\ Cur.value >= 0
           /\ Len(Handled) = IF pc = "write_wait" THEN idx ELSE idx - 1
    /\ pc = "loop_top" =>
           \A i \in DOMAIN snap : snap[i].value >= 0 => i <= Len(Handled)
    /\ pc = "tick_sleep" => snap = <<>>

\* C17, witness: a tick is over that drained commands for two devices and
\* issued the two writes one after the other.
C17_Witness ==
    /\ pc = "loop_top"
    /\ Len(snap) = 2
    /\ \A i \in DOMAIN snap : snap[i].value >= 0
    /\ Len(Handled) = 2

\* The positions of main() inside a tick, and those of the shutdown sequence.
TickPcs == {"tick_sleep", "drain", "write_call", "write_wait"}

ShutdownPcs ==
    {"pub_disconnecting", "klf_disconnect", "pub_disconnected_klf",
     "pub_disconnected", "mqtt_disconnect", "loop_stop", "stopped"}

\* C18: RUNNING is looked at only at the top of a tick. A shutdown request
\* leaves main() where it is; a tick in progress with RUNNING false goes on
\* to its end; the shutdown sequence starts from the loop test only, with
\* every command of the last snapshot issued and its write completed; a tick
\* starts only when RUNNING is true, and from the shutdown sequence main()
\* never returns to a tick or to a write.
C18_ShutdownAtTickTop ==
    [][ /\ cleanup => pc' = pc /\ snap' = snap /\ idx' = idx
        /\ (~RUNNING /\ pc \in TickPcs /\ pc' # pc) =>
               pc' \in TickPcs \cup {"loop_top", "crashed"}
        /\ (pc # "pub_disconnecting" /\ pc' = "pub_disconnecting") =>
               /\ pc = "loop_top"
               /\ ~RUNNING
               /\ \A i \in DOMAIN snap : snap[i].value >= 0 => i <= Len(Handled)
        /\ (pc = "loop_top" /\ pc' = "tick_sleep") => RUNNING
        /\ pc \in ShutdownPcs => pc' \in ShutdownPcs ]_vars

\* C18, witness: RUNNING was cleared after the tick's loop test, and the tick
\* is at the write of the second command it drained.
C18_Witness ==
    /\ ~RUNNING
    /\ pc = "write_wait"
    /\ idx = 2
    /\ Len(snap) = 2
    /\ snap[1].value >= 0

\* C19: every value handed to set_position is a percent in 0..100.
C19_PositionInRange ==
    pc \in {"write_call", "write_wait"} => Cur.value \in 0..100

\* C20: once RUNNING is false it stays false, and main() goes through the
\* shutdown sequence to its end (or the process has ended before, on a failed
\* hub write).
C20_ShutdownCompletes ==
    /\ [][~RUNNING => ~RUNNING']_vars
    /\ ~RUNNING ~> (pc = "stopped" \/ pc = "crashed")


====
